---- MODULE Spec2Model ----
(***************************************************************************)
(* Model of src/app.py, a Streamlit weather dashboard.                     *)
(*                                                                         *)
(* Streamlit re-executes the whole script on every user interaction; the   *)
(* only state that survives a run is st.session_state and the values of    *)
(* the input widgets.  One action of Spec is therefore one complete run of *)
(* the script for one interaction.                                         *)
(***************************************************************************)
EXTENDS Integers, Sequences, FiniteSets, TLC

VARIABLES
    session_state,   \* st.session_state: a mapping whose DOMAIN is the keys set so far
    selected_unit,   \* value of the "Select Temperature Unit" radio (app.py:231-233)
    st_error,        \* the st.error message of the latest run, NoMessage if none
    last_success,    \* history: what the latest successful fetch returned, None if none
    call             \* SpecFn only: the latest call of a pure function, with its result

vars == <<session_state, selected_unit, st_error, last_success, call>>

----------------------------------------------------------------------------
(* Bounds of the model *)

\* how many names of ExtraNames the user may type besides the built-in ones
NumExtraCities == 2

----------------------------------------------------------------------------
(* Python values *)

None == [py |-> "None"]

\* bool(x) for the values the script tests: None is falsy, a non-empty dict is truthy
Truthy(x) == x # None

\* d[k] = v on a dict
Put(d, k, v) == (k :> v) @@ d

EmptyDict == [x \in {} |-> None]

\* x in list
InList(x, list) == \E i \in 1..Len(list) : list[i] = x

----------------------------------------------------------------------------
(* Inputs *)

DefaultFavorites == <<"London", "New York", "Tokyo">>

DefaultCity == "Ghaziabad"

ExtraNames == <<"Atlantis", "Paris", "Delhi", "Cairo">>

\* what the user may have in the text input when clicking "Search City"
CityInputs ==
    {DefaultFavorites[i] : i \in 1..Len(DefaultFavorites)}
        \cup {DefaultCity, ""}
        \cup {ExtraNames[i] : i \in 1..NumExtraCities}

\* the names a fetch can be made for (app.py:242)
SearchedNames == CityInputs \ {""}

UnitSystems == {"metric", "imperial"}

\* The answers of the three collaborators to the requests of one run, in the
\* order the requests are made.  A request is only made when the one before
\* it was answered "ok", so the answers of a run end at the first failure;
\* answers to requests that are never made are left out here and are part
\* of AllUpstreams.  A match of the geocoder carries the latitude, longitude
\* and timezone fields the code reads, and an "ok" answer is a JSON object.
GeoFailures == {"no_results", "http_error", "network_error"}

UpstreamFailures == {"http_error", "network_error"}

Upstreams ==
    {[geocode |-> g] : g \in GeoFailures}
        \cup {[geocode |-> "ok", forecast |-> w] : w \in UpstreamFailures}
        \cup {[geocode |-> "ok", forecast |-> "ok", air_quality |-> a] :
                 a \in {"ok"} \cup UpstreamFailures}

----------------------------------------------------------------------------
(* get_weather_data (app.py:14-72) *)

NoMessage == <<"no message">>

\* f"City not found: {city}. Please try again." (app.py:27)
CityNotFound(city) == <<"City not found", city>>

\* f"HTTP error: {err}" (app.py:67-68)
HTTPError == <<"HTTP error">>

\* f"Error fetching data: {e}" (app.py:69-70)
ErrorFetching == <<"Error fetching data">>

\* one requests.get with its raise_for_status: the API, what was asked, the answer
Request(api, params, status) == [api |-> api, params |-> params, status |-> status]

\* top match of the geocoder for a name; its coordinates are named after it
GeoLocation(city) == [name |-> city, latitude |-> <<"lat", city>>]

Failed(requests, msg) ==
    [requests |-> requests, error |-> msg, result |-> <<None, None, None>>]

\* get_weather_data with the air-quality call in a try block of its own: the
\* forecast is returned without air data when that call fails
get_weather_data_partial(city, units, upstream) ==
    LET geo_req == Request("geocode", [name |-> city], upstream.geocode)
        location == GeoLocation(city)
        unit_temp == IF units = "metric" THEN "celsius" ELSE "fahrenheit"
        unit_wind == IF units = "metric" THEN "kmh" ELSE "mph"
        weather_req ==
            Request("forecast",
                    [latitude |-> location.latitude,
                     temperature_unit |-> unit_temp,
                     wind_speed_unit |-> unit_wind],
                    upstream.forecast)
        weather_data ==
            [latitude |-> location.latitude,
             temperature_unit |-> unit_temp,
             wind_speed_unit |-> unit_wind]
        air_req ==
            Request("air_quality", [latitude |-> location.latitude], upstream.air_quality)
        air_data == [latitude |-> location.latitude]
    IN  IF upstream.geocode = "http_error" THEN Failed(<<geo_req>>, HTTPError)
        ELSE IF upstream.geocode = "network_error"
            THEN Failed(<<geo_req>>, ErrorFetching)
        ELSE IF upstream.geocode = "no_results"
            THEN Failed(<<geo_req>>, CityNotFound(city))
        ELSE IF upstream.forecast = "http_error"
            THEN Failed(<<geo_req, weather_req>>, HTTPError)
        ELSE IF upstream.forecast = "network_error"
            THEN Failed(<<geo_req, weather_req>>, ErrorFetching)
        ELSE IF upstream.air_quality # "ok"
            THEN [requests |-> <<geo_req, weather_req, air_req>>,
                  error |-> IF upstream.air_quality = "http_error"
                                THEN HTTPError ELSE ErrorFetching,
                  result |-> <<weather_data, None, location>>]
        ELSE [requests |-> <<geo_req, weather_req, air_req>>,
              error |-> NoMessage,
              result |-> <<weather_data, air_data, location>>]

get_weather_data(city, units, upstream) ==
    LET geo_req == Request("geocode", [name |-> city], upstream.geocode)
        location == GeoLocation(city)
        unit_temp == IF units = "metric" THEN "celsius" ELSE "fahrenheit"
        unit_wind == IF units = "metric" THEN "kmh" ELSE "mph"
        weather_req ==
            Request("forecast",
                    [latitude |-> location.latitude,
                     temperature_unit |-> unit_temp,
                     wind_speed_unit |-> unit_wind],
                    upstream.forecast)
        weather_data ==
            [latitude |-> location.latitude,
             temperature_unit |-> unit_temp,
             wind_speed_unit |-> unit_wind]
        air_req ==
            Request("air_quality", [latitude |-> location.latitude], upstream.air_quality)
        air_data == [latitude |-> location.latitude]
    IN  IF upstream.geocode = "http_error" THEN Failed(<<geo_req>>, HTTPError)
        ELSE IF upstream.geocode = "network_error"
            THEN Failed(<<geo_req>>, ErrorFetching)
        ELSE IF upstream.geocode = "no_results"
            THEN Failed(<<geo_req>>, CityNotFound(city))
        ELSE IF upstream.forecast = "http_error"
            THEN Failed(<<geo_req, weather_req>>, HTTPError)
        ELSE IF upstream.forecast = "network_error"
            THEN Failed(<<geo_req, weather_req>>, ErrorFetching)
        ELSE IF upstream.air_quality = "http_error"
            THEN Failed(<<geo_req, weather_req, air_req>>, HTTPError)
        ELSE IF upstream.air_quality = "network_error"
            THEN Failed(<<geo_req, weather_req, air_req>>, ErrorFetching)
        ELSE [requests |-> <<geo_req, weather_req, air_req>>,
              error |-> NoMessage,
              result |-> <<weather_data, air_data, location>>]

----------------------------------------------------------------------------
(* The script, top to bottom (app.py:205-273) *)

MaxFavorites == 5

\* app.py:210-212
InitFavorites(s) ==
    IF "saved_cities" \notin DOMAIN s
        THEN Put(s, "saved_cities", DefaultFavorites)
        ELSE s

\* app.py:216-217; ev.text is the value of the text input
SearchCity(s, ev) ==
    IF ev.kind = "search" THEN Put(s, "city", ev.text) ELSE s

\* app.py:223-225; a button answers True only to a click on its own key
FavoriteButtons(s, ev) ==
    IF ev.kind = "favorite" /\ InList(ev.key, s.saved_cities)
        THEN Put(s, "city", ev.key)
        ELSE s

\* app.py:227-228
InitCity(s) ==
    IF "city" \notin DOMAIN s THEN Put(s, "city", DefaultCity) ELSE s

\* app.py:205-235, the sidebar
Sidebar(s, ev) == InitCity(FavoriteButtons(SearchCity(InitFavorites(s), ev), ev))

\* app.py:235
UnitSymbol(unit) == IF unit = "metric" THEN "C" ELSE "F"

\* AddFavorite with "len(...) > 5" for "len(...) >= 5": a sixth entry gets in
AddFavoriteOffByOne(saved_cities, city) ==
    IF ~InList(city, saved_cities)
        THEN IF Len(saved_cities) > MaxFavorites
                THEN Append(Tail(saved_cities), city)
                ELSE Append(saved_cities, city)
        ELSE saved_cities

\* AddFavorite with "pop()" for "pop(0)": the newest entry is evicted
AddFavoritePopLast(saved_cities, city) ==
    IF ~InList(city, saved_cities)
        THEN IF Len(saved_cities) >= MaxFavorites
                THEN Append(SubSeq(saved_cities, 1, Len(saved_cities) - 1), city)
                ELSE Append(saved_cities, city)
        ELSE saved_cities

\* app.py:253-257
AddFavorite(saved_cities, city) ==
    IF ~InList(city, saved_cities)
        THEN IF Len(saved_cities) >= MaxFavorites
                THEN Append(Tail(saved_cities), city)
                ELSE Append(saved_cities, city)
        ELSE saved_cities

\* StoreFetch with the favorites update moved out of the success branch
StoreFetchAlwaysFavorite(s, fetched, unit) ==
    LET weather_data == fetched.result[1]
        air_data == fetched.result[2]
        location == fetched.result[3]
        s6 == IF Truthy(weather_data) /\ Truthy(air_data) /\ Truthy(location)
                THEN LET s1 == Put(s, "weather_data", weather_data)
                         s2 == Put(s1, "air_data", air_data)
                         s3 == Put(s2, "unit_symbol", UnitSymbol(unit))
                         s4 == Put(s3, "selected_unit", unit)
                     IN  Put(s4, "location", location)
                ELSE s
    IN  Put(s6, "saved_cities", AddFavorite(s6.saved_cities, s6.city))

\* StoreFetch with an else branch that clears the old data when the fetch fails
StoreFetchClearOnFailure(s, fetched, unit) ==
    LET weather_data == fetched.result[1]
        air_data == fetched.result[2]
        location == fetched.result[3]
    IN  IF Truthy(weather_data) /\ Truthy(air_data) /\ Truthy(location)
            THEN LET s1 == Put(s, "weather_data", weather_data)
                     s2 == Put(s1, "air_data", air_data)
                     s3 == Put(s2, "unit_symbol", UnitSymbol(unit))
                     s4 == Put(s3, "selected_unit", unit)
                     s5 == Put(s4, "location", location)
                 IN  Put(s5, "saved_cities", AddFavorite(s5.saved_cities, s5.city))
            ELSE [k \in (DOMAIN s) \ {"weather_data", "air_data", "location"} |-> s[k]]

\* StoreFetch with the two unit fields stored before the result is tested
StoreFetchUnitFirst(s, fetched, unit) ==
    LET weather_data == fetched.result[1]
        air_data == fetched.result[2]
        location == fetched.result[3]
        s3 == Put(s, "unit_symbol", UnitSymbol(unit))
        s4 == Put(s3, "selected_unit", unit)
    IN  IF Truthy(weather_data) /\ Truthy(air_data) /\ Truthy(location)
            THEN LET s1 == Put(s4, "weather_data", weather_data)
                     s2 == Put(s1, "air_data", air_data)
                     s5 == Put(s2, "location", location)
                 IN  Put(s5, "saved_cities", AddFavorite(s5.saved_cities, s5.city))
            ELSE s4

\* app.py:245-260
StoreFetch(s, fetched, unit) ==
    LET weather_data == fetched.result[1]
        air_data == fetched.result[2]
        location == fetched.result[3]
    IN  IF Truthy(weather_data) /\ Truthy(air_data) /\ Truthy(location)
            THEN LET s1 == Put(s, "weather_data", weather_data)
                     s2 == Put(s1, "air_data", air_data)
                     s3 == Put(s2, "unit_symbol", UnitSymbol(unit))
                     s4 == Put(s3, "selected_unit", unit)
                     s5 == Put(s4, "location", location)
                 IN  Put(s5, "saved_cities", AddFavorite(s5.saved_cities, s5.city))
            ELSE s

\* app.py:242-243: nothing is fetched for an empty city name
Fetch(s, unit, upstream) ==
    IF s.city # ""
        THEN get_weather_data(s.city, unit, upstream)
        ELSE [requests |-> <<>>, error |-> NoMessage, result |-> <<None, None, None>>]

\* what a successful fetch leaves to display (app.py:247-251)
Fetched(fetched, unit) ==
    [weather_data |-> fetched.result[1],
     air_data |-> fetched.result[2],
     unit_symbol |-> UnitSymbol(unit),
     selected_unit |-> unit,
     location |-> fetched.result[3]]

\* one run of the script for the interaction ev, the radio being at unit
RunScript(ev, unit, upstream) ==
    LET s == Sidebar(session_state, ev)
        fetched == Fetch(s, unit, upstream)
    IN  /\ session_state' = (IF s.city # "" THEN StoreFetch(s, fetched, unit) ELSE s)
        /\ selected_unit' = unit
        /\ st_error' = fetched.error
        /\ last_success' =
              (IF fetched.result # <<None, None, None>>
                  THEN Fetched(fetched, unit)
                  ELSE last_success)
        /\ UNCHANGED call

\* the script has run at least once in this session
PageShown == session_state # EmptyDict

\* the browser opens the page: the first run, no widget has been touched
Load ==
    /\ ~PageShown
    /\ \E upstream \in Upstreams : RunScript([kind |-> "load"], selected_unit, upstream)

\* "Search City" clicked with text in the text input; the text typed is an
\* input of the click, typing alone being a Rerun
Search ==
    /\ PageShown
    /\ \E text \in CityInputs, upstream \in Upstreams :
          RunScript([kind |-> "search", text |-> text], selected_unit, upstream)

\* one of the favorite buttons clicked.  The page shows the list as it was when
\* the sidebar was drawn: a name appended later in that run is the current
\* city already, and a click on a name evicted in that run finds no button
\* with its key, so either click is a Rerun.
ClickFavorite ==
    /\ PageShown
    /\ \E i \in 1..Len(session_state.saved_cities), upstream \in Upstreams :
          RunScript([kind |-> "favorite", key |-> session_state.saved_cities[i]],
                    selected_unit, upstream)

\* the radio moved to the other unit
ToggleUnit ==
    /\ PageShown
    /\ \E unit \in UnitSystems \ {selected_unit}, upstream \in Upstreams :
          RunScript([kind |-> "unit"], unit, upstream)

\* any other interaction (a tab, the graph selector, Enter in the text input,
\* a favorite button that is no longer in the list): the script runs again
Rerun ==
    /\ PageShown
    /\ \E upstream \in Upstreams : RunScript([kind |-> "rerun"], selected_unit, upstream)

NoCall == [fn |-> "none", returned |-> FALSE]

Init ==
    /\ session_state = EmptyDict
    /\ selected_unit = "metric"
    /\ st_error = NoMessage
    /\ last_success = None
    /\ call = NoCall

Next == Load \/ Search \/ ClickFavorite \/ ToggleUnit \/ Rerun

Spec == Init /\ [][Next]_vars

----------------------------------------------------------------------------
(* Python strings *)

\* A str the code looks into (lower(), title(), the in operator) is the
\* sequence of its characters; a message that is only returned is a string.

UpperCase ==
    <<"A", "B", "C", "D", "E", "F", "G", "H", "I", "J", "K", "L", "M",
      "N", "O", "P", "Q", "R", "S", "T", "U", "V", "W", "X", "Y", "Z">>

LowerCase ==
    <<"a", "b", "c", "d", "e", "f", "g", "h", "i", "j", "k", "l", "m",
      "n", "o", "p", "q", "r", "s", "t", "u", "v", "w", "x", "y", "z">>

IsUpper(c) == \E i \in 1..26 : UpperCase[i] = c

IsLower(c) == \E i \in 1..26 : LowerCase[i] = c

LowerChar(c) ==
    IF IsUpper(c) THEN LowerCase[CHOOSE i \in 1..26 : UpperCase[i] = c] ELSE c

UpperChar(c) ==
    IF IsLower(c) THEN UpperCase[CHOOSE i \in 1..26 : LowerCase[i] = c] ELSE c

\* str.lower()
Lower(str) == [i \in 1..Len(str) |-> LowerChar(str[i])]

\* str.title(): a letter that follows a letter is lowered, any other is raised
Title(str) ==
    [i \in 1..Len(str) |->
        IF i > 1 /\ (IsUpper(str[i - 1]) \/ IsLower(str[i - 1]))
            THEN LowerChar(str[i])
            ELSE UpperChar(str[i])]

\* sub in str
Contains(sub, str) ==
    \E i \in 1..(Len(str) - Len(sub) + 1) :
        \A j \in 1..Len(sub) : str[i + j - 1] = sub[j]

\* the words the recommendation rules look for (app.py:147-157, 166-170, 187-195)
W_rain == <<"r", "a", "i", "n">>

W_storm == <<"s", "t", "o", "r", "m">>

W_drizzle == <<"d", "r", "i", "z", "z", "l", "e">>

W_snow == <<"s", "n", "o", "w">>

W_cloudy == <<"c", "l", "o", "u", "d", "y">>

W_overcast == <<"o", "v", "e", "r", "c", "a", "s", "t">>

W_clear == <<"c", "l", "e", "a", "r">>

W_mainly_clear == <<"m", "a", "i", "n", "l", "y", " ", "c", "l", "e", "a", "r">>

W_fog == <<"f", "o", "g">>

W_unhealthy == <<"u", "n", "h", "e", "a", "l", "t", "h", "y">>

W_very_unhealthy == <<"v", "e", "r", "y", " ", "u", "n", "h", "e", "a", "l", "t", "h", "y">>

W_hazardous == <<"h", "a", "z", "a", "r", "d", "o", "u", "s">>

----------------------------------------------------------------------------
(* WMO_CODES (app.py:75-104): the descriptions; the icons are left out *)

\* 0: "Clear sky"
Wmo0 == <<"C", "l", "e", "a", "r", " ", "s", "k", "y">>

\* 1: "Mainly clear"
Wmo1 == <<"M", "a", "i", "n", "l", "y", " ", "c", "l", "e", "a", "r">>

\* 2: "Partly cloudy"
Wmo2 == <<"P", "a", "r", "t", "l", "y", " ", "c", "l", "o", "u", "d", "y">>

\* 3: "Overcast"
Wmo3 == <<"O", "v", "e", "r", "c", "a", "s", "t">>

\* 45: "Fog"
Wmo45 == <<"F", "o", "g">>

\* 48: "Depositing rime fog"
Wmo48 == <<"D", "e", "p", "o", "s", "i", "t", "i", "n", "g", " ", "r", "i", "m", "e", " ", "f", "o", "g">>

\* 51: "Light drizzle"
Wmo51 == <<"L", "i", "g", "h", "t", " ", "d", "r", "i", "z", "z", "l", "e">>

\* 53: "Moderate drizzle"
Wmo53 == <<"M", "o", "d", "e", "r", "a", "t", "e", " ", "d", "r", "i", "z", "z", "l", "e">>

\* 55: "Dense drizzle"
Wmo55 == <<"D", "e", "n", "s", "e", " ", "d", "r", "i", "z", "z", "l", "e">>

\* 56: "Light freezing drizzle"
Wmo56 == <<"L", "i", "g", "h", "t", " ", "f", "r", "e", "e", "z", "i", "n", "g", " ", "d", "r", "i", "z", "z", "l", "e">>

\* 57: "Dense freezing drizzle"
Wmo57 == <<"D", "e", "n", "s", "e", " ", "f", "r", "e", "e", "z", "i", "n", "g", " ", "d", "r", "i", "z", "z", "l", "e">>

\* 61: "Slight rain"
Wmo61 == <<"S", "l", "i", "g", "h", "t", " ", "r", "a", "i", "n">>

\* 63: "Moderate rain"
Wmo63 == <<"M", "o", "d", "e", "r", "a", "t", "e", " ", "r", "a", "i", "n">>

\* 65: "Heavy rain"
Wmo65 == <<"H", "e", "a", "v", "y", " ", "r", "a", "i", "n">>

\* 66: "Light freezing rain"
Wmo66 == <<"L", "i", "g", "h", "t", " ", "f", "r", "e", "e", "z", "i", "n", "g", " ", "r", "a", "i", "n">>

\* 67: "Heavy freezing rain"
Wmo67 == <<"H", "e", "a", "v", "y", " ", "f", "r", "e", "e", "z", "i", "n", "g", " ", "r", "a", "i", "n">>

\* 71: "Slight snow fall"
Wmo71 == <<"S", "l", "i", "g", "h", "t", " ", "s", "n", "o", "w", " ", "f", "a", "l", "l">>

\* 73: "Moderate snow fall"
Wmo73 == <<"M", "o", "d", "e", "r", "a", "t", "e", " ", "s", "n", "o", "w", " ", "f", "a", "l", "l">>

\* 75: "Heavy snow fall"
Wmo75 == <<"H", "e", "a", "v", "y", " ", "s", "n", "o", "w", " ", "f", "a", "l", "l">>

\* 77: "Snow grains"
Wmo77 == <<"S", "n", "o", "w", " ", "g", "r", "a", "i", "n", "s">>

\* 80: "Slight rain showers"
Wmo80 == <<"S", "l", "i", "g", "h", "t", " ", "r", "a", "i", "n", " ", "s", "h", "o", "w", "e", "r", "s">>

\* 81: "Moderate rain showers"
Wmo81 == <<"M", "o", "d", "e", "r", "a", "t", "e", " ", "r", "a", "i", "n", " ", "s", "h", "o", "w", "e", "r", "s">>

\* 82: "Violent rain showers"
Wmo82 == <<"V", "i", "o", "l", "e", "n", "t", " ", "r", "a", "i", "n", " ", "s", "h", "o", "w", "e", "r", "s">>

\* 85: "Slight snow showers"
Wmo85 == <<"S", "l", "i", "g", "h", "t", " ", "s", "n", "o", "w", " ", "s", "h", "o", "w", "e", "r", "s">>

\* 86: "Heavy snow showers"
Wmo86 == <<"H", "e", "a", "v", "y", " ", "s", "n", "o", "w", " ", "s", "h", "o", "w", "e", "r", "s">>

\* 95: "Thunderstorm"
Wmo95 == <<"T", "h", "u", "n", "d", "e", "r", "s", "t", "o", "r", "m">>

\* 96: "Thunderstorm with light hail"
Wmo96 == <<"T", "h", "u", "n", "d", "e", "r", "s", "t", "o", "r", "m", " ", "w", "i", "t", "h", " ", "l", "i", "g", "h", "t", " ", "h", "a", "i", "l">>

\* 99: "Thunderstorm with heavy hail"
Wmo99 == <<"T", "h", "u", "n", "d", "e", "r", "s", "t", "o", "r", "m", " ", "w", "i", "t", "h", " ", "h", "e", "a", "v", "y", " ", "h", "a", "i", "l">>

WMO_CODES ==
       0 :> Wmo0
    @@ 1 :> Wmo1
    @@ 2 :> Wmo2
    @@ 3 :> Wmo3
    @@ 45 :> Wmo45
    @@ 48 :> Wmo48
    @@ 51 :> Wmo51
    @@ 53 :> Wmo53
    @@ 55 :> Wmo55
    @@ 56 :> Wmo56
    @@ 57 :> Wmo57
    @@ 61 :> Wmo61
    @@ 63 :> Wmo63
    @@ 65 :> Wmo65
    @@ 66 :> Wmo66
    @@ 67 :> Wmo67
    @@ 71 :> Wmo71
    @@ 73 :> Wmo73
    @@ 75 :> Wmo75
    @@ 77 :> Wmo77
    @@ 80 :> Wmo80
    @@ 81 :> Wmo81
    @@ 82 :> Wmo82
    @@ 85 :> Wmo85
    @@ 86 :> Wmo86
    @@ 95 :> Wmo95
    @@ 96 :> Wmo96
    @@ 99 :> Wmo99

\* "Unknown", the default of WMO_CODES.get (app.py:145, 164, 184)
Unknown == <<"U", "n", "k", "n", "o", "w", "n">>

\* description.lower() of every entry of the table and of the default
LowerDescriptions == [c \in DOMAIN WMO_CODES |-> Lower(WMO_CODES[c])]

LowerUnknown == Lower(Unknown)

\* WMO_CODES.get(weather_code, ("Unknown", ""))[0].lower()
Condition(weather_code) ==
    IF weather_code \in DOMAIN WMO_CODES
        THEN LowerDescriptions[weather_code]
        ELSE LowerUnknown

----------------------------------------------------------------------------
(* get_aqi_level (app.py:106-119) *)

\* "Good"
L_Good == <<"G", "o", "o", "d">>

\* "Moderate"
L_Moderate == <<"M", "o", "d", "e", "r", "a", "t", "e">>

\* "Unhealthy (SG)"
L_UnhealthySG == <<"U", "n", "h", "e", "a", "l", "t", "h", "y", " ", "(", "S", "G", ")">>

\* "Unhealthy"
L_Unhealthy == <<"U", "n", "h", "e", "a", "l", "t", "h", "y">>

\* "Very Unhealthy"
L_VeryUnhealthy == <<"V", "e", "r", "y", " ", "U", "n", "h", "e", "a", "l", "t", "h", "y">>

\* "Hazardous"
L_Hazardous == <<"H", "a", "z", "a", "r", "d", "o", "u", "s">>

\* get_aqi_level with "<" for "<="
get_aqi_level_strict(aqi) ==
    IF aqi < 50 THEN [label |-> L_Good, color |-> "green"]
    ELSE IF aqi < 100 THEN [label |-> L_Moderate, color |-> "yellow"]
    ELSE IF aqi < 150 THEN [label |-> L_UnhealthySG, color |-> "orange"]
    ELSE IF aqi < 200 THEN [label |-> L_Unhealthy, color |-> "red"]
    ELSE IF aqi < 300 THEN [label |-> L_VeryUnhealthy, color |-> "purple"]
    ELSE [label |-> L_Hazardous, color |-> "maroon"]

get_aqi_level(aqi) ==
    IF aqi <= 50 THEN [label |-> L_Good, color |-> "green"]
    ELSE IF aqi <= 100 THEN [label |-> L_Moderate, color |-> "yellow"]
    ELSE IF aqi <= 150 THEN [label |-> L_UnhealthySG, color |-> "orange"]
    ELSE IF aqi <= 200 THEN [label |-> L_Unhealthy, color |-> "red"]
    ELSE IF aqi <= 300 THEN [label |-> L_VeryUnhealthy, color |-> "purple"]
    ELSE [label |-> L_Hazardous, color |-> "maroon"]

----------------------------------------------------------------------------
(* The recommendation rules (app.py:142-197) *)

\* A temperature is an integer number of tenths of a degree, the resolution
\* of the forecast API.  temp_c is the Celsius value the code computes,
\* "temp if unit == 'metric' else (temp - 32) * 5/9", times TempScale: the
\* exact value, plus the rounding of the double arithmetic where it decides
\* a comparison of the rules.  Between -100.0 and 200.0 degrees that is one
\* input: 82.4 F, which the code computes as 28.000000000000004.
TempScale == 180

DoubleRounding(temp, unit) ==
    IF unit # "metric" /\ temp = 824 THEN 1 ELSE 0

temp_c(temp, unit) ==
    IF unit = "metric"
        THEN 18 * temp
        ELSE (temp - 320) * 10 + DoubleRounding(temp, unit)

\* a whole number of degrees Celsius on the scale of temp_c
Celsius(degrees) == degrees * TempScale

\* get_weather_mood with "temp_c >= 30" for "temp_c > 30"
get_weather_mood_inclusive(weather_code, temp, unit) ==
    LET condition == Condition(weather_code)
    IN  IF Contains(W_rain, condition) \/ Contains(W_storm, condition)
              \/ Contains(W_drizzle, condition)
            THEN "Cozy indoor reading weather"
        ELSE IF Contains(W_snow, condition)
            THEN "Hot chocolate & blanket vibes"
        ELSE IF temp_c(temp, unit) >= Celsius(30)
            THEN "Bright, breezy, and sunglasses on"
        ELSE IF temp_c(temp, unit) < Celsius(10)
            THEN "Crisp air & warm jacket day"
        ELSE IF Contains(W_cloudy, condition) \/ Contains(W_overcast, condition)
            THEN "Perfectly soft and cloudy skies"
        ELSE IF Contains(W_clear, condition)
            THEN "Blue skies and good times ahead"
        ELSE "A great day to be you!"

get_weather_mood(weather_code, temp, unit) ==
    LET condition == Condition(weather_code)
    IN  IF Contains(W_rain, condition) \/ Contains(W_storm, condition)
              \/ Contains(W_drizzle, condition)
            THEN "Cozy indoor reading weather"
        ELSE IF Contains(W_snow, condition)
            THEN "Hot chocolate & blanket vibes"
        ELSE IF temp_c(temp, unit) > Celsius(30)
            THEN "Bright, breezy, and sunglasses on"
        ELSE IF temp_c(temp, unit) < Celsius(10)
            THEN "Crisp air & warm jacket day"
        ELSE IF Contains(W_cloudy, condition) \/ Contains(W_overcast, condition)
            THEN "Perfectly soft and cloudy skies"
        ELSE IF Contains(W_clear, condition)
            THEN "Blue skies and good times ahead"
        ELSE "A great day to be you!"

get_clothing_recommendation(weather_code, temp, unit) ==
    LET condition == Condition(weather_code)
        c == temp_c(temp, unit)
    IN  IF Contains(W_rain, condition) \/ Contains(W_drizzle, condition)
            THEN "Waterproof jacket and an umbrella are a must!"
        ELSE IF Contains(W_snow, condition)
            THEN "Heavy coat, gloves, and a warm hat. Stay bundled!"
        ELSE IF Contains(W_storm, condition)
            THEN "Stay indoors! But if you must go out, waterproof gear is essential."
        ELSE IF c > Celsius(28)
            THEN "Light cotton or linen clothes. Stay hydrated!"
        ELSE IF Celsius(20) <= c /\ c <= Celsius(28)
            THEN "A t-shirt and jeans/shorts will be comfortable."
        ELSE IF Celsius(10) <= c /\ c < Celsius(20)
            THEN "A light jacket or sweater is a good idea."
        ELSE IF c < Celsius(10)
            THEN "Wear a warm coat, layers are your friend!"
        ELSE "Check the conditions and dress accordingly."

\* f"High pollution! ({aqi_level.title()}) ..." (app.py:188)
HighPollution(level) ==
    [text |-> "High pollution! Best to stay indoors. Good day for study or indoor exercise.",
     level |-> level]

Plain(text) == [text |-> text]

\* get_activity_recommendation without "aqi_level = aqi_level.lower()"
get_activity_recommendation_no_lower(weather_code, aqi_level_arg) ==
    LET condition == Condition(weather_code)
        aqi_level == aqi_level_arg
    IN  IF aqi_level \in {W_unhealthy, W_very_unhealthy, W_hazardous}
            THEN HighPollution(Title(aqi_level))
        ELSE IF Contains(W_rain, condition) \/ Contains(W_storm, condition)
              \/ Contains(W_drizzle, condition)
            THEN Plain("Looks wet out there!")
        ELSE IF Contains(W_snow, condition)
            THEN Plain("It's a winter wonderland!")
        ELSE IF Contains(W_clear, condition) \/ Contains(W_mainly_clear, condition)
            THEN Plain("Clear skies!")
        ELSE IF Contains(W_cloudy, condition) \/ Contains(W_overcast, condition)
              \/ Contains(W_fog, condition)
            THEN Plain("Pleasantly overcast.")
        ELSE Plain("A versatile day!")

get_activity_recommendation(weather_code, aqi_level_arg) ==
    LET condition == Condition(weather_code)
        aqi_level == Lower(aqi_level_arg)
    IN  IF aqi_level \in {W_unhealthy, W_very_unhealthy, W_hazardous}
            THEN HighPollution(Title(aqi_level))
        ELSE IF Contains(W_rain, condition) \/ Contains(W_storm, condition)
              \/ Contains(W_drizzle, condition)
            THEN Plain("Looks wet out there!")
        ELSE IF Contains(W_snow, condition)
            THEN Plain("It's a winter wonderland!")
        ELSE IF Contains(W_clear, condition) \/ Contains(W_mainly_clear, condition)
            THEN Plain("Clear skies!")
        ELSE IF Contains(W_cloudy, condition) \/ Contains(W_overcast, condition)
              \/ Contains(W_fog, condition)
            THEN Plain("Pleasantly overcast.")
        ELSE Plain("A versatile day!")

----------------------------------------------------------------------------
(* The functions applied to inputs drawn from bounded sets *)

\* AQI values run from -AqiBelowZero to MaxAqi
AqiBelowZero == 5

MaxAqi == 305

AqiValues == (0 - AqiBelowZero)..MaxAqi

\* weather codes: those of WMO_CODES, and NumUnknownCodes codes that are not
\* in the table, counted down from 100
NumUnknownCodes == 2

WeatherCodes == (DOMAIN WMO_CODES) \cup {100 - n : n \in 0..(NumUnknownCodes - 1)}

\* temperatures: every whole degree from -MaxDegreesBelowZero to MaxDegrees,
\* and the tenths next to each threshold of the rules in either unit
MaxDegreesBelowZero == 30

MaxDegrees == 100

Thresholds == {100, 200, 280, 300, 500, 680, 824, 860}

Temperatures ==
    {10 * d : d \in (0 - MaxDegreesBelowZero)..MaxDegrees}
        \cup {t + e : t \in Thresholds, e \in {-1, 0, 1}}

\* every combination of answers, those to requests never made included
AllUpstreams ==
    {[geocode |-> g, forecast |-> w, air_quality |-> a] :
        g \in {"ok"} \cup GeoFailures,
        w \in {"ok"} \cup UpstreamFailures,
        a \in {"ok"} \cup UpstreamFailures}

\* a call that has not returned yet
Pending == [pending |-> TRUE]

\* the call with its return value
Return(ret) == [call EXCEPT !.returned = TRUE, !.ret = ret]

Calls(fn, argss) ==
    {[fn |-> fn, args |-> a, returned |-> FALSE, ret |-> Pending] : a \in argss}

Forecasts == [weather_code : WeatherCodes, temp : Temperatures, unit : UnitSystems]

InitFn ==
    /\ session_state = EmptyDict
    /\ selected_unit = "metric"
    /\ st_error = NoMessage
    /\ last_success = None
    /\ call \in
          Calls("get_weather_data",
                [city : SearchedNames, units : UnitSystems, upstream : AllUpstreams])
            \cup Calls("get_aqi_level", [aqi : AqiValues])
            \cup Calls("get_weather_mood", Forecasts)
            \cup Calls("get_clothing_recommendation", Forecasts)
            \cup Calls("get_activity_recommendation",
                       [weather_code : WeatherCodes, aqi : AqiValues])

Calling(fn) == call.fn = fn /\ ~call.returned

CallGetWeatherData ==
    /\ Calling("get_weather_data")
    /\ call' = Return(
          get_weather_data(call.args.city, call.args.units, call.args.upstream))
    /\ UNCHANGED <<session_state, selected_unit, st_error, last_success>>

CallAqiLevel ==
    /\ Calling("get_aqi_level")
    /\ call' = Return(
          get_aqi_level(call.args.aqi))
    /\ UNCHANGED <<session_state, selected_unit, st_error, last_success>>

CallWeatherMood ==
    /\ Calling("get_weather_mood")
    /\ call' = Return(
          get_weather_mood(call.args.weather_code, call.args.temp, call.args.unit))
    /\ UNCHANGED <<session_state, selected_unit, st_error, last_success>>

CallClothingRecommendation ==
    /\ Calling("get_clothing_recommendation")
    /\ call' = Return(
          get_clothing_recommendation(call.args.weather_code, call.args.temp, call.args.unit))
    /\ UNCHANGED <<session_state, selected_unit, st_error, last_success>>

\* app.py:358 and 363: the level of the AQI value goes into the activity rule
CallActivityRecommendation ==
    /\ Calling("get_activity_recommendation")
    /\ call' = Return(
          get_activity_recommendation(call.args.weather_code, get_aqi_level(call.args.aqi).label))
    /\ UNCHANGED <<session_state, selected_unit, st_error, last_success>>

NextFn ==
    \/ CallGetWeatherData
    \/ CallAqiLevel
    \/ CallWeatherMood
    \/ CallClothingRecommendation
    \/ CallActivityRecommendation

SpecFn == InitFn /\ [][NextFn]_vars

----------------------------------------------------------------------------
(* What the page shows after a run (app.py:265-273, 285, 290, 314) *)

DisplayKeys == {"weather_data", "air_data", "unit_symbol", "selected_unit", "location"}

\* app.py:265-266: the welcome message replaces the tabs
WelcomeShown == "weather_data" \notin DOMAIN session_state

\* the stored display data of a session state: the DisplayKeys it holds
Displayed(s) == [k \in DisplayKeys \cap DOMAIN s |-> s[k]]

\* app.py:314
WindUnitLabel(unit) == IF unit = "metric" THEN "km/h" ELSE "mph"

\* the latest run fetched, and the fetch failed
FetchFailed == st_error # NoMessage

\* the latest run fetched, and the fetch succeeded
FetchSucceeded == PageShown /\ session_state.city # "" /\ st_error = NoMessage

\* the favorites list the update of a run starts from
FavoritesBefore == InitFavorites(session_state).saved_cities

NoDuplicates(list) ==
    \A i, j \in 1..Len(list) : i # j => list[i] # list[j]

----------------------------------------------------------------------------
(* C1 *)

FavoritesBounded ==
    PageShown =>
        /\ Len(session_state.saved_cities) <= 5
        /\ NoDuplicates(session_state.saved_cities)

ReAddKeepsList ==
    (FetchSucceeded' /\ InList(session_state'.city, FavoritesBefore))
        => session_state'.saved_cities = FavoritesBefore

\* C1: in every reachable state the favorites list holds at most 5 entries
\* and no name twice, and a run whose fetch succeeds for a city already in
\* the list leaves the list as it was.
C1_FavoritesBoundedDistinct == []FavoritesBounded /\ [][ReAddKeepsList]_vars

\* the list is full, the oldest default entry has been evicted, and the
\* latest run fetched again a city that was already in the list
C1_Witness ==
    /\ FetchSucceeded
    /\ Len(session_state.saved_cities) = 5
    /\ session_state.saved_cities[1] # "London"
    /\ session_state.city = session_state.saved_cities[2]

----------------------------------------------------------------------------
(* C2 *)

FifoStep ==
    LET old == FavoritesBefore
        new == session_state'.saved_cities
        c == session_state'.city
    IN  IF FetchSucceeded' /\ ~InList(c, old)
            THEN IF Len(old) = 5
                    THEN /\ Len(new) = 5
                         /\ \A i \in 1..4 : new[i] = old[i + 1]
                         /\ new[5] = c
                    ELSE /\ Len(old) < 5
                         /\ Len(new) = Len(old) + 1
                         /\ \A i \in 1..Len(old) : new[i] = old[i]
                         /\ new[Len(new)] = c
            ELSE new = old

\* C2: a successful fetch of a city not in the list removes exactly the head
\* when the list holds 5 entries, keeps the other four in order and puts the
\* new city last; with fewer than 5 entries it appends and removes nothing;
\* every other run, a click on an existing favorite included, leaves the
\* list as it was.
C2_FifoEviction == [][FifoStep]_vars

\* the newest entry was added by evicting the head of a full list
C2_Witness ==
    /\ FetchSucceeded
    /\ Len(session_state.saved_cities) = 5
    /\ session_state.saved_cities[1] = "New York"
    /\ session_state.saved_cities[5] = session_state.city

----------------------------------------------------------------------------
(* C3 *)

\* the step is a click on "Search City" with text in the input, and the
\* geocoder answers with zero matches
SearchNotFound(text) ==
    /\ PageShown
    /\ RunScript([kind |-> "search", text |-> text], selected_unit,
                 [geocode |-> "no_results"])

\* C3 as stated: a search the geocoder has no match for shows the "City not
\* found: <city>." error and leaves every field of the session state,
\* current_city included, as it was before the search.
C3_NoStateOverwritten ==
    [][\A text \in SearchedNames :
          SearchNotFound(text) =>
              /\ st_error' = CityNotFound(text)
              /\ session_state' = session_state]_vars

\* C3 amended: a search the geocoder has no match for shows the "City not
\* found: <city>." error and overwrites only current_city, which becomes
\* the searched name; the stored weather, air-quality and location data,
\* the stored unit and the favorites list keep their values.
C3_OnlyCityOverwritten ==
    [][\A text \in SearchedNames :
          SearchNotFound(text) =>
              /\ st_error' = CityNotFound(text)
              /\ session_state'.city = text
              /\ DOMAIN session_state' = DOMAIN session_state
              /\ \A k \in DOMAIN session_state \ {"city"} :
                    session_state'[k] = session_state[k]]_vars

\* "Atlantis" was searched and not found while another city's data is shown
C3_Witness ==
    /\ st_error = CityNotFound("Atlantis")
    /\ session_state.city = "Atlantis"
    /\ ~InList("Atlantis", session_state.saved_cities)
    /\ ~WelcomeShown
    /\ session_state.location.name = "Paris"

----------------------------------------------------------------------------
(* C4 *)

FailureKeepsDisplay ==
    FetchFailed' =>
        /\ Displayed(session_state') = Displayed(session_state)
        /\ session_state'.saved_cities = FavoritesBefore

DisplayIsLatestSuccess ==
    IF last_success = None
        THEN WelcomeShown
        ELSE /\ ~WelcomeShown
             /\ Displayed(session_state) = last_success

\* C4: a run whose fetch fails (city not found, HTTP error or network failure
\* at any of the three collaborators) leaves weather_data, air_data,
\* location, unit_symbol and selected_unit and the favorites list as they
\* were; what is stored is always the result of the latest successful fetch,
\* and while no fetch has succeeded nothing is stored and the welcome
\* message is shown.
C4_FailedFetchKeepsData == []DisplayIsLatestSuccess /\ [][FailureKeepsDisplay]_vars

\* the air-quality call failed over the network for a city other than the
\* one whose data is displayed, the radio being at the other unit
C4_Witness ==
    /\ st_error = ErrorFetching
    /\ ~WelcomeShown
    /\ session_state.location.name # session_state.city
    /\ session_state.selected_unit # selected_unit

\* the other case of C4: no fetch has succeeded yet, the latest one failed
\* with an HTTP error, and the welcome message is shown
C4_WitnessWelcome ==
    /\ st_error = HTTPError
    /\ WelcomeShown

----------------------------------------------------------------------------
(* C10 *)

\* C10: whenever weather data is stored, all five display fields are stored,
\* the unit symbol and the wind-speed label are those of the unit system the
\* stored forecast was requested in, and the stored location is the place the
\* stored forecast and air-quality data were requested for.
C10_DisplayFromOneFetch ==
    ~WelcomeShown =>
        LET s == session_state
        IN  /\ DisplayKeys \subseteq DOMAIN s
            /\ s.unit_symbol = UnitSymbol(s.selected_unit)
            /\ s.weather_data.temperature_unit
                  = (IF s.unit_symbol = "C" THEN "celsius" ELSE "fahrenheit")
            /\ s.weather_data.wind_speed_unit
                  = (IF WindUnitLabel(s.selected_unit) = "km/h" THEN "kmh" ELSE "mph")
            /\ s.weather_data.latitude = s.location.latitude
            /\ s.air_data.latitude = s.location.latitude

\* imperial data of one city is displayed while the radio is back at metric
\* and the current city is another one, after a failed fetch
C10_Witness ==
    /\ ~WelcomeShown
    /\ session_state.selected_unit = "imperial"
    /\ selected_unit = "metric"
    /\ FetchFailed
    /\ session_state.city # session_state.location.name

----------------------------------------------------------------------------
(* C5 *)

\* the APIs requested by a run of get_weather_data, in the order of the requests
Apis(requests) == [i \in 1..Len(requests) |-> requests[i].api]

IsPrefix(s, full) == Len(s) <= Len(full) /\ \A i \in 1..Len(s) : s[i] = full[i]

\* C5: a run of get_weather_data requests geocode, forecast and air quality
\* in this order, each at most once; the forecast only when the geocoder
\* answered with a match, the air quality only when the forecast call
\* succeeded; it returns either all three of (weather_data, air_data,
\* location) or None for all three, and None for all three whenever a
\* collaborator failed or the geocoder had no match.
C5_SequentialAllOrNothing ==
    (call.fn = "get_weather_data" /\ call.returned) =>
        LET up == call.args.upstream
            apis == Apis(call.ret.requests)
            result == call.ret.result
            allOk == up.geocode = "ok" /\ up.forecast = "ok" /\ up.air_quality = "ok"
        IN  /\ IsPrefix(apis, <<"geocode", "forecast", "air_quality">>)
            /\ Len(apis) >= 1
            /\ Len(apis) >= 2 <=> up.geocode = "ok"
            /\ Len(apis) >= 3 <=> (up.geocode = "ok" /\ up.forecast = "ok")
            /\ \A i \in 1..Len(apis) : call.ret.requests[i].status = up[apis[i]]
            /\ \/ result = <<None, None, None>>
               \/ \A i \in 1..3 : result[i] # None
            /\ result = <<None, None, None>> <=> ~allOk
            /\ allOk => result[3].name = call.args.city

\* geocoder and forecast succeeded, the air-quality call failed: three
\* requests were made and nothing is returned
C5_Witness ==
    /\ call.fn = "get_weather_data"
    /\ call.returned
    /\ call.args.upstream =
          [geocode |-> "ok", forecast |-> "ok", air_quality |-> "http_error"]
    /\ Len(call.ret.requests) = 3
    /\ call.ret.result = <<None, None, None>>

----------------------------------------------------------------------------
(* C6 *)

Ladder(v) ==
    IF v <= 50 THEN <<L_Good, "green">>
    ELSE IF v \in 51..100 THEN <<L_Moderate, "yellow">>
    ELSE IF v \in 101..150 THEN <<L_UnhealthySG, "orange">>
    ELSE IF v \in 151..200 THEN <<L_Unhealthy, "red">>
    ELSE IF v \in 201..300 THEN <<L_VeryUnhealthy, "purple">>
    ELSE <<L_Hazardous, "maroon">>

BoundaryLabels ==
    (50 :> L_Good) @@ (51 :> L_Moderate) @@ (100 :> L_Moderate)
        @@ (101 :> L_UnhealthySG) @@ (150 :> L_UnhealthySG)
        @@ (151 :> L_Unhealthy) @@ (200 :> L_Unhealthy)
        @@ (201 :> L_VeryUnhealthy) @@ (300 :> L_VeryUnhealthy)
        @@ (301 :> L_Hazardous)

\* C6: for every AQI value v, get_aqi_level(v) is the (label, color) pair of
\* the ladder v<=50 Good/green, 51..100 Moderate/yellow, 101..150 Unhealthy
\* (SG)/orange, 151..200 Unhealthy/red, 201..300 Very Unhealthy/purple,
\* v>=301 Hazardous/maroon, and the ten boundary values get the labels of
\* the table.
C6_AqiLadder ==
    (call.fn = "get_aqi_level" /\ call.returned) =>
        LET v == call.args.aqi
        IN  /\ <<call.ret.label, call.ret.color>> = Ladder(v)
            /\ v \in DOMAIN BoundaryLabels => call.ret.label = BoundaryLabels[v]

\* 300 is still Very Unhealthy
C6_Witness ==
    /\ call.fn = "get_aqi_level"
    /\ call.returned
    /\ call.args.aqi = 300
    /\ call.ret.label = L_VeryUnhealthy

----------------------------------------------------------------------------
(* C7 *)

IsPollutionWarning(ret) == "level" \in DOMAIN ret

\* C7: for every AQI value from 151 and every weather code, known or not,
\* the activity recommendation is the stay-indoors pollution warning; for
\* every AQI value up to 150 it is not, and it is what the rule gives for
\* the same weather code at the level Good.
C7_AqiBeforeWeather ==
    (call.fn = "get_activity_recommendation" /\ call.returned) =>
        LET v == call.args.aqi
        IN  /\ v >= 151 =>
                  /\ IsPollutionWarning(call.ret)
                  /\ call.ret.level = get_aqi_level(v).label
                  /\ call.ret.level \in {L_Unhealthy, L_VeryUnhealthy, L_Hazardous}
            /\ v <= 150 =>
                  /\ ~IsPollutionWarning(call.ret)
                  /\ call.ret = get_activity_recommendation(call.args.weather_code, L_Good)
                  /\ call.ret.text \in
                        {"Looks wet out there!", "It's a winter wonderland!",
                         "Clear skies!", "Pleasantly overcast.", "A versatile day!"}

\* AQI 275 under a clear sky: the pollution warning, level Very Unhealthy
C7_Witness ==
    /\ call.fn = "get_activity_recommendation"
    /\ call.returned
    /\ call.args = [weather_code |-> 0, aqi |-> 275]
    /\ IsPollutionWarning(call.ret)
    /\ call.ret.level = L_VeryUnhealthy

----------------------------------------------------------------------------
(* C8 *)

\* the description of the code has none of rain, storm, drizzle, snow in it
NoPrecipitationWord(weather_code) ==
    \A w \in {W_rain, W_storm, W_drizzle, W_snow} : ~Contains(w, Condition(weather_code))

\* temp tenths of a degree in unit are strictly above (below) degrees Celsius,
\* in exact arithmetic: C = temp/10, or C = (temp/10 - 32) * 5/9
Above(temp, unit, degrees) ==
    IF unit = "metric" THEN temp > 10 * degrees ELSE (temp - 320) * 5 > 90 * degrees

Below(temp, unit, degrees) ==
    IF unit = "metric" THEN temp < 10 * degrees ELSE (temp - 320) * 5 < 90 * degrees

\* C8: for a weather code whose description matches none of rain, storm,
\* drizzle, snow, the mood is the bright/breezy message exactly when the
\* temperature is strictly above 30 degrees Celsius and the crisp-air message
\* exactly when it is strictly below 10; at 86 F, 50 F, 30 C and 10 C it is
\* neither, but the cloudy, the clear or the default message.
C8_MoodThresholdsStrict ==
    (call.fn = "get_weather_mood" /\ call.returned
        /\ NoPrecipitationWord(call.args.weather_code)) =>
        LET temp == call.args.temp
            unit == call.args.unit
        IN  /\ call.ret = "Bright, breezy, and sunglasses on" <=> Above(temp, unit, 30)
            /\ call.ret = "Crisp air & warm jacket day" <=> Below(temp, unit, 10)
            /\ (\/ unit = "imperial" /\ temp \in {860, 500}
                \/ unit = "metric" /\ temp \in {300, 100}) =>
                  call.ret \in {"Perfectly soft and cloudy skies",
                                "Blue skies and good times ahead",
                                "A great day to be you!"}

\* 86 F under a clear sky is not the bright/breezy mood
C8_Witness ==
    /\ call.fn = "get_weather_mood"
    /\ call.returned
    /\ call.args = [weather_code |-> 0, temp |-> 860, unit |-> "imperial"]
    /\ call.ret = "Blue skies and good times ahead"

----------------------------------------------------------------------------
(* C9 *)

\* the codes of WMO_CODES that denote snow
SnowCodes == {71, 73, 75, 77, 85, 86}

\* C9: for every snow code, at every temperature and in both unit systems,
\* the mood is the hot-chocolate message and the clothing recommendation the
\* heavy-coat message, and for an AQI level below Unhealthy the activity is
\* the winter-outdoor message.
C9_SnowCodesAreSnow ==
    (call.returned /\ call.fn # "get_weather_data" /\ call.fn # "get_aqi_level"
        /\ call.args.weather_code \in SnowCodes) =>
        /\ call.fn = "get_weather_mood" => call.ret = "Hot chocolate & blanket vibes"
        /\ call.fn = "get_clothing_recommendation" =>
              call.ret = "Heavy coat, gloves, and a warm hat. Stay bundled!"
        /\ (call.fn = "get_activity_recommendation" /\ call.args.aqi <= 150) =>
              call.ret = Plain("It's a winter wonderland!")

====
